---- MODULE Spec2Model ----
(***************************************************************************)
(* Model of MentalHealth_WebApp.py: the value normalizers, the feature     *)
(* vector builder, the four-stage inference pipeline with its two          *)
(* exception handlers, and the result formatter.                           *)
(*                                                                         *)
(* Floats are fixed-point integers counted in quarters (1.0 is 4, 0.5 is   *)
(* 2): every quarter is exact in binary floating point, so float           *)
(* arithmetic, comparison and the round-half-even of the ':.1f' format are *)
(* exact on them.  Displayed numbers are counted in tenths (the text       *)
(* "1.2" is 12).                                                           *)
(***************************************************************************)
EXTENDS Integers, Sequences, FiniteSets, TLC

\* ------------------------------------------------------------------ bounds

\* Longest score sequence a wellness model returns (one more than the four
\* activities, so that zip truncation happens).
MaxSeqLen == 5

\* Number of distinct outputs a scalar model artifact can produce.
NumOutcomes == 6

\* ---------------------------------------------------------- Python values

\* A Python value: its type tag t, its number n (an int for "int"/"bool",
\* quarters for "float"), its text s and its items (list, ndarray).
V(t, n, s, items) == [t |-> t, n |-> n, s |-> s, items |-> items]

PyInt(n) == V("int", n, "", <<>>)
PyFloat(q) == V("float", q, "", <<>>)
PyStr(s) == V("str", 0, s, <<>>)
PyNone == V("NoneType", 0, "", <<>>)
PyList(items) == V("list", 0, "", items)
NdArray(items) == V("ndarray", 0, "", items)

\* An exception object: its class and str(e).
Exc(cls, msg) == [cls |-> cls, msg |-> msg]

\* The outcome of evaluating an expression: a value, or a raised exception.
Ret(v) == [ok |-> TRUE, val |-> v, exc |-> Exc("", "")]
Raise(cls, msg) == [ok |-> FALSE, val |-> PyNone, exc |-> Exc(cls, msg)]

\* str.lower() on the texts the model uses.
Lower(s) ==
    CASE s \in {"Yes", "YES", "yEs", "yes"} -> "yes"
      [] s \in {"No", "NO", "no"} -> "no"
      [] s = "Male" -> "male"
      [] s = "Other" -> "other"
      [] OTHER -> s

\* float(text): the texts that parse as a number, in quarters.
NumericText == {"7", "2.5", " 3 "}
ParseFloat(s) ==
    CASE s = "7" -> 28
      [] s = "2.5" -> 10
      [] s = " 3 " -> 12
      [] OTHER -> 0

\* The builtin float(value).
Float(value) ==
    CASE value.t = "int" -> Ret(PyFloat(4 * value.n))
      [] value.t = "bool" -> Ret(PyFloat(4 * value.n))
      [] value.t = "float" -> Ret(value)
      [] value.t = "str" ->
            IF value.s \in NumericText
            THEN Ret(PyFloat(ParseFloat(value.s)))
            ELSE Raise("ValueError", "could not convert string to float")
      [] OTHER -> Raise("TypeError", "float() argument must be a string or a real number")

\* ------------------------------------------------------- value normalizers

ConvertBinaryNoLower(value) ==
    IF value.t = "str"
    THEN (IF value.s = "yes" THEN PyFloat(4) ELSE PyFloat(0))
    ELSE PyFloat(0)

\* convert_binary_response(value)
convert_binary_response(value) ==
    IF value.t = "str"
    THEN (IF Lower(value.s) = "yes" THEN PyFloat(4) ELSE PyFloat(0))
    ELSE PyFloat(0)

\* convert_numeric(value, default): float(value), or float(default) when
\* float(value) raises ValueError or TypeError (the only classes Float
\* raises here).
convert_numeric(value, default) ==
    LET r == Float(value)
    IN  IF r.ok THEN r.val ELSE Float(default).val

\* value == category, for a category that is a str.
PyEqStr(value, category) == value.t = "str" /\ value.s = category

\* f"{prefix}_{category}" if prefix else category
ColumnName(prefix, category) ==
    IF prefix # "" THEN prefix \o "_" \o category ELSE category

\* encode_categorical(value, categories, prefix): the dict as a function
\* from column name to float.
encode_categorical(value, categories, prefix) ==
    [c \in {ColumnName(prefix, categories[i]) : i \in 1..Len(categories)} |->
        IF \E i \in 1..Len(categories) :
              /\ c = ColumnName(prefix, categories[i])
              /\ PyEqStr(value, categories[i])
        THEN PyFloat(4) ELSE PyFloat(0)]

\* --------------------------------------------------- the form collaborator

NumericFields ==
    {"age", "sleep_hours", "work_hours", "exercise_freq", "screen_time",
     "social_activity", "diet_quality", "sleep_quality", "stress_level_dep",
     "social_support", "physical_activity", "overtime", "work_satisfaction",
     "mood_swings", "stress_level_burn", "stress_level_well"}

BinaryFields == {"family_history", "substance_use"}

Fields == NumericFields \cup BinaryFields \cup {"gender"}

\* The widgets' initial values.
Defaults ==
    [f \in Fields |->
        CASE f = "age" -> PyInt(25)
          [] f = "gender" -> PyStr("Male")
          [] f = "sleep_hours" -> PyInt(7)
          [] f = "work_hours" -> PyInt(8)
          [] f = "exercise_freq" -> PyInt(3)
          [] f = "screen_time" -> PyInt(4)
          [] f \in BinaryFields -> PyStr("No")
          [] f = "overtime" -> PyInt(0)
          [] f = "stress_level_well" -> PyInt(2)
          [] OTHER -> PyInt(5)]

\* The widgets' largest values.
SliderMax ==
    [f \in NumericFields |->
        CASE f = "age" -> 100
          [] f \in {"sleep_hours", "screen_time"} -> 12
          [] f = "work_hours" -> 16
          [] f = "exercise_freq" -> 7
          [] f = "overtime" -> 20
          [] f = "stress_level_well" -> 5
          [] OTHER -> 10]

\* Values a numeric answer takes when the collaborator supplies something
\* other than a widget's int: text, numeric text, a float, nothing, a list.
OddNumbers ==
    {PyStr("abc"), PyStr("7"), PyStr(""), PyFloat(10), PyNone, PyList(<<>>)}

OddGenders == {PyStr("Female"), PyStr("Other"), PyStr("male"), PyNone}

OddBinaries == {PyStr("Yes"), PyStr("YES"), PyStr("yes"), PyStr("yEs"), PyInt(1)}

\* The raw-answer records a submission carries: the defaults, the defaults
\* with one answer changed, and the defaults with every numeric answer
\* replaced by the same odd value.
AnswerSet ==
    {Defaults}
    \cup {[Defaults EXCEPT ![f] = PyInt(SliderMax[f])] : f \in NumericFields}
    \cup {[f \in Fields |-> IF f \in NumericFields THEN v ELSE Defaults[f]] :
            v \in OddNumbers}
    \cup {[Defaults EXCEPT !["gender"] = g] : g \in OddGenders}
    \cup {[Defaults EXCEPT ![f] = b] : f \in BinaryFields, b \in OddBinaries}

\* -------------------------------------------------- feature vector builder

\* One DataFrame column: its name and the float64 it holds, in quarters.
Col(name, value) == [name |-> name, val |-> value.n]

ZeroDefault == PyFloat(0)

\* The values of a DataFrame's single row, in column order.
Values(df) == [i \in 1..Len(df) |-> df[i].val]

\* Lines 82-84.
EncodeInputs(L) ==
    ("gender_encoded" :> encode_categorical(L["gender"], <<"Male", "Other">>, "gender"))
    @@ ("family_history_num" :> convert_binary_response(L["family_history"]))
    @@ ("substance_use_num" :> convert_binary_response(L["substance_use"]))
    @@ L

\* Lines 87-97.
StressInput(L) ==
    << Col("age", convert_numeric(L["age"], ZeroDefault)),
       Col("sleep_hours", convert_numeric(L["sleep_hours"], ZeroDefault)),
       Col("work_hours", convert_numeric(L["work_hours"], ZeroDefault)),
       Col("exercise_freq", convert_numeric(L["exercise_freq"], ZeroDefault)),
       Col("screen_time", convert_numeric(L["screen_time"], ZeroDefault)),
       Col("social_activity", convert_numeric(L["social_activity"], ZeroDefault)),
       Col("diet_quality", convert_numeric(L["diet_quality"], ZeroDefault)),
       Col("gender_Male", L["gender_encoded"]["gender_Male"]),
       Col("gender_Other", L["gender_encoded"]["gender_Other"]) >>

\* Lines 100-110.
DepressionInput(L) ==
    << Col("age", convert_numeric(L["age"], ZeroDefault)),
       Col("sleep_quality", convert_numeric(L["sleep_quality"], ZeroDefault)),
       Col("stress_level", convert_numeric(L["stress_level_dep"], ZeroDefault)),
       Col("social_support", convert_numeric(L["social_support"], ZeroDefault)),
       Col("physical_activity", convert_numeric(L["physical_activity"], ZeroDefault)),
       Col("gender_Male", L["gender_encoded"]["gender_Male"]),
       Col("gender_Other", L["gender_encoded"]["gender_Other"]),
       Col("family_history_Yes", L["family_history_num"]),
       Col("substance_use_Yes", L["substance_use_num"]) >>

\* Lines 113-123.
BurnoutInput(L) ==
    << Col("age", convert_numeric(L["age"], ZeroDefault)),
       Col("work_hours", convert_numeric(L["work_hours"], ZeroDefault)),
       Col("overtime", convert_numeric(L["overtime"], ZeroDefault)),
       Col("work_satisfaction", convert_numeric(L["work_satisfaction"], ZeroDefault)),
       Col("stress_level", convert_numeric(L["stress_level_burn"], ZeroDefault)),
       Col("sleep_hours", convert_numeric(L["sleep_hours"], ZeroDefault)),
       Col("mood_swings", convert_numeric(L["mood_swings"], ZeroDefault)),
       Col("gender_Male", L["gender_encoded"]["gender_Male"]),
       Col("gender_Other", L["gender_encoded"]["gender_Other"]) >>

\* Lines 82-123: the locals after the three input frames are built.
BuildInputs(L) ==
    LET E == EncodeInputs(L)
    IN  ("stress_input" :> StressInput(E))
        @@ ("depression_input" :> DepressionInput(E))
        @@ ("burnout_input" :> BurnoutInput(E))
        @@ E

\* ------------------------------------------------------- model artifacts

\* An unpickled artifact.  A model answers predict(X)[0] from a weighted
\* sum of the row it is given: the sum selects one of the artifact's
\* outcomes, which are floats base, base+step, ..., a str label (labelOn),
\* or an exception with text msg (failOn).  A scaler has mean base and
\* scale step.  A wellness model returns an ndarray (or a list, aslist) of
\* 0..MaxSeqLen scores, a scalar, or raises.
Artifact(kind, coef, base, step, failOn, labelOn, msg, aslist) ==
    [kind |-> kind, coef |-> coef, base |-> base, step |-> step,
     failOn |-> failOn, labelOn |-> labelOn, msg |-> msg, aslist |-> aslist]

\* A global name that no assignment has bound.
Unset == Artifact("unset", 0, 0, 0, {}, {}, "", FALSE)

RECURSIVE WeightedSum(_, _)
WeightedSum(xs, i) ==
    IF i > Len(xs) THEN 0 ELSE i * xs[i] + WeightedSum(xs, i + 1)

\* The outcome a row selects: whole units and odd quarters both count.
Selector(m, xs, modulus) ==
    LET w == WeightedSum(xs, 1)
    IN  (m.coef * ((w \div 4) + (w % 4))) % modulus

\* model.predict(X)[0] of a stress, depression or burnout model.
PredictRow0(m, xs) ==
    LET h == Selector(m, xs, NumOutcomes)
    IN  IF h \in m.failOn THEN Raise("ValueError", m.msg)
        ELSE IF h \in m.labelOn THEN Ret(PyStr("Yes"))
        ELSE Ret(PyFloat(m.base + m.step * h))

\* scaler.transform(X): an ndarray row, (x - mean_) / scale_ per column.
Transform(sc, xs) ==
    LET h == Selector(sc, xs, NumOutcomes)
    IN  IF h \in sc.failOn THEN Raise("ValueError", sc.msg)
        ELSE Ret(NdArray([i \in 1..Len(xs) |-> ((xs[i] - sc.base) * 4) \div sc.step]))

\* wellness_model.predict(X)[0]
WellnessRow0(m, xs) ==
    LET h == Selector(m, xs, MaxSeqLen + 3)
        score(i) == IF m.aslist /\ i = 2 THEN PyStr("n/a")
                    ELSE PyFloat(m.base + m.step * i)
        scores(n) == [i \in 1..n |-> score(i)]
    IN  IF h = MaxSeqLen + 2
        THEN (IF m.failOn # {} THEN Raise("ValueError", m.msg)
              ELSE Ret(PyFloat(m.base + m.step * 3)))
        ELSE IF h = MaxSeqLen + 1
        THEN Ret(PyFloat(m.base + m.step * (1 + (WeightedSum(xs, 1) % MaxSeqLen))))
        ELSE IF m.aslist THEN Ret(PyList(scores(h)))
        ELSE Ret(NdArray([i \in 1..h |-> score(i).n]))

\* ndarray.tolist(): a list of Python floats.
ToList(arr) == PyList([i \in 1..Len(arr.items) |-> PyFloat(arr.items[i])])

FileNames ==
    <<"stress_model.pkl", "depression_model.pkl", "burnout_model.pkl",
      "wellness_model.pkl", "scaler.pkl">>

GlobalNames ==
    <<"stress_model", "depression_model", "burnout_model", "wellness_model", "scaler">>

\* The artifact sets a deployment may hold on disk.
Deployments ==
    { [stress_model |-> Artifact("model", 1, -3, 5, {}, {}, "", FALSE),
       depression_model |-> Artifact("model", 1, 0, 1, {}, {}, "", FALSE),
       burnout_model |-> Artifact("model", 5, 0, 1, {}, {}, "", FALSE),
       wellness_model |-> Artifact("wellness", 1, -9, 8, {0}, {}, "wellness features mismatch", FALSE),
       scaler |-> Artifact("scaler", 1, 8, 2, {0, 3}, {}, "scaler features mismatch", FALSE)],
      [stress_model |-> Artifact("model", 5, -3, 5, {0}, {}, "stress features mismatch", FALSE),
       depression_model |-> Artifact("model", 1, 0, 1, {1}, {2}, "depression features mismatch", FALSE),
       burnout_model |-> Artifact("model", 1, 0, 1, {2}, {3}, "burnout features mismatch", FALSE),
       wellness_model |-> Artifact("wellness", 5, -9, 8, {}, {}, "", TRUE),
       scaler |-> Artifact("scaler", 1, 4, 4, {}, {}, "", FALSE)],
      [stress_model |-> Artifact("model", 1, 0, 4, {0, 1, 2}, {}, "stress features mismatch", FALSE),
       depression_model |-> Artifact("model", 1, 2, 0, {0, 2, 4}, {}, "depression features mismatch", FALSE),
       burnout_model |-> Artifact("model", 1, 2, 0, {0, 3}, {}, "burnout features mismatch", FALSE),
       wellness_model |-> Artifact("wellness", 1, -9, 8, {}, {}, "", FALSE),
       scaler |-> Artifact("scaler", 1, 8, 2, {}, {}, "", FALSE)] }

\* ------------------------------------------------------- result formatter

Max2(a, b) == IF b > a THEN b ELSE a
Min2(a, b) == IF b < a THEN b ELSE a

ClampNoFloor(q) == Min2(20, q)

\* max(1.0, min(5.0, score)), in quarters.
Clamp(q) == Max2(4, Min2(20, q))

\* f"{x:.1f}": the tenths shown for x quarters.  10x/4 = 5x/2 is exact when
\* x is even and a tie when x is odd; a tie rounds to the even tenth.
Fmt1(q) ==
    IF q % 2 = 0 THEN (5 * q) \div 2
    ELSE LET lo == (5 * q - 1) \div 2
         IN  IF lo % 2 = 0 THEN lo ELSE lo + 1

\* One element written to the page: its kind, its text and its number.
Line(k, a, n) == [k |-> k, a |-> a, n |-> n]

YesNoStrict(p) == IF p.n > 2 THEN "Yes" ELSE "No"

\* 'Yes' if prediction >= 0.5 else 'No'
YesNo(p) == IF p.n >= 2 THEN "Yes" ELSE "No"

wellness_activities == <<"Meditation", "Therapy", "Music Therapy", "Relaxation Techniques">>

\* Lines 160-163: zip(wellness_activities, wellness_predictions).
ZipLines(scores) ==
    [i \in 1..Min2(Len(wellness_activities), Len(scores)) |->
        Line("activity", wellness_activities[i],
             Fmt1(Clamp(convert_numeric(scores[i], PyFloat(4)).n)))]

\* Lines 166-169: one score for every activity.
BroadcastLines(wp) ==
    [i \in 1..Len(wellness_activities) |->
        Line("activity", wellness_activities[i],
             Fmt1(Clamp(convert_numeric(wp, PyFloat(4)).n)))]

\* Line 151.
StressLine(L) == Line("stress", "", Fmt1(L["stress_prediction"].n))

\* Lines 146-147: wellness_predictions after the ndarray check.
AsList(wp) == IF wp.t = "ndarray" THEN ToList(wp) ELSE wp

\* Lines 150-169, for locals L whose wellness_predictions went through
\* lines 146-147.
DisplayLines(L) ==
    << Line("subheader", "Predictions:", 0),
       StressLine(L),
       Line("depression", YesNo(L["depression_prediction"]), 0),
       Line("burnout", YesNo(L["burnout_prediction"]), 0),
       Line("write", "Recommended Wellness Activities (1-5 scale):", 0) >>
    \o (IF L["wellness_predictions"].t \in {"list", "ndarray"}
        THEN ZipLines(L["wellness_predictions"].items)
        ELSE BroadcastLines(L["wellness_predictions"]))

\* ------------------------------------------------- the inference pipeline

\* What running a statement does: the locals after it, the elements it
\* wrote to the page, the artifact calls it made, and the exception it
\* raised when ok is FALSE.
Call(fn, arg) == [fn |-> fn, arg |-> arg]
StepOk(L, lines, calls) ==
    [ok |-> TRUE, L |-> L, lines |-> lines, calls |-> calls, exc |-> Exc("", "")]
StepRaise(L, lines, calls, e) ==
    [ok |-> FALSE, L |-> L, lines |-> lines, calls |-> calls, exc |-> e]

NameError(name) == Exc("NameError", "name '" \o name \o "' is not defined")

\* variable = convert_numeric(G[model].predict(L[input])[0])
PredictInto(G, L, model, input, variable) ==
    IF G[model].kind = "unset" THEN StepRaise(L, <<>>, <<>>, NameError(model))
    ELSE LET xs == Values(L[input])
             r == PredictRow0(G[model], xs)
         IN  IF r.ok
             THEN StepOk((variable :> convert_numeric(r.val, ZeroDefault)) @@ L,
                         <<>>, <<Call(model, xs)>>)
             ELSE StepRaise(L, <<>>, <<Call(model, xs)>>, r.exc)

StressCallEager(G, L) ==
    LET r == PredictInto(G, L, "stress_model", "stress_input", "stress_prediction")
    IN  IF r.ok THEN [r EXCEPT !.lines = <<StressLine(r.L)>>] ELSE r

\* Line 127.
StressCall(G, L) ==
    PredictInto(G, L, "stress_model", "stress_input", "stress_prediction")

\* Line 128.
DepressionCall(G, L) ==
    PredictInto(G, L, "depression_model", "depression_input", "depression_prediction")

BurnoutCallReadsStress(G, L) ==
    LET r == PredictInto(G, L, "burnout_model", "burnout_input", "burnout_prediction")
    IN  IF r.ok /\ "stress_prediction" \in DOMAIN L
        THEN [r EXCEPT !.L = ("burnout_prediction" :> L["stress_prediction"]) @@ r.L]
        ELSE r

\* Line 129.
BurnoutCall(G, L) ==
    PredictInto(G, L, "burnout_model", "burnout_input", "burnout_prediction")

WellnessInputThresholded(L) ==
    LET flag(p) == IF p.n >= 2 THEN PyFloat(4) ELSE PyFloat(0)
    IN  << Col("age", convert_numeric(L["age"], ZeroDefault)),
           Col("stress_level", convert_numeric(L["stress_level_well"], ZeroDefault)),
           Col("gender_Male", L["gender_encoded"]["gender_Male"]),
           Col("gender_Other", L["gender_encoded"]["gender_Other"]),
           Col("burnout_Yes", flag(L["burnout_prediction"])),
           Col("depression_risk_Yes", flag(L["depression_prediction"])) >>

\* Lines 132-139.
WellnessInput(L) ==
    << Col("age", convert_numeric(L["age"], ZeroDefault)),
       Col("stress_level", convert_numeric(L["stress_level_well"], ZeroDefault)),
       Col("gender_Male", L["gender_encoded"]["gender_Male"]),
       Col("gender_Other", L["gender_encoded"]["gender_Other"]),
       Col("burnout_Yes", convert_numeric(L["burnout_prediction"], ZeroDefault)),
       Col("depression_risk_Yes", convert_numeric(L["depression_prediction"], ZeroDefault)) >>

\* Lines 132-139 as a statement.
BuildWellnessInput(L) == StepOk(("wellness_input" :> WellnessInput(L)) @@ L, <<>>, <<>>)

\* Line 142.
ScaleCall(G, L) ==
    IF G["scaler"].kind = "unset" THEN StepRaise(L, <<>>, <<>>, NameError("scaler"))
    ELSE LET xs == Values(L["wellness_input"])
             r == Transform(G["scaler"], xs)
         IN  IF r.ok
             THEN StepOk(("wellness_input_scaled" :> r.val) @@ L, <<>>, <<Call("scaler", xs)>>)
             ELSE StepRaise(L, <<>>, <<Call("scaler", xs)>>, r.exc)

WellnessCallUnscaled(G, L) ==
    IF G["wellness_model"].kind = "unset"
    THEN StepRaise(L, <<>>, <<>>, NameError("wellness_model"))
    ELSE LET xs == Values(L["wellness_input"])
             r == WellnessRow0(G["wellness_model"], xs)
         IN  IF r.ok
             THEN StepOk(("wellness_predictions" :> r.val) @@ L, <<>>,
                         <<Call("wellness_model", xs)>>)
             ELSE StepRaise(L, <<>>, <<Call("wellness_model", xs)>>, r.exc)

\* Line 143.
WellnessCall(G, L) ==
    IF G["wellness_model"].kind = "unset"
    THEN StepRaise(L, <<>>, <<>>, NameError("wellness_model"))
    ELSE LET xs == L["wellness_input_scaled"].items
             r == WellnessRow0(G["wellness_model"], xs)
         IN  IF r.ok
             THEN StepOk(("wellness_predictions" :> r.val) @@ L, <<>>,
                         <<Call("wellness_model", xs)>>)
             ELSE StepRaise(L, <<>>, <<Call("wellness_model", xs)>>, r.exc)

\* Lines 146-169.
ShowResults(G, L) ==
    LET L2 == ("wellness_predictions" :> AsList(L["wellness_predictions"])) @@ L
    IN  StepOk(L2, DisplayLines(L2), <<>>)

UnboundLocalError(name) ==
    Exc("UnboundLocalError",
        "cannot access local variable '" \o name \o "' where it is not associated with a value")

\* Lines 172-177: the handler of the inner try, entered with exception e.
HandlePredictionError(L, e) ==
    LET first == << Line("error_predictions", e.msg, 0), Line("error_debug", "", 0) >>
    IN  IF "wellness_predictions" \notin DOMAIN L
        THEN StepRaise(L, first, <<>>, UnboundLocalError("wellness_predictions"))
        ELSE StepOk(L,
                    first
                    \o << Line("error_type", L["wellness_predictions"].t, 0) >>
                    \o (IF L["wellness_predictions"].t = "ndarray"
                        THEN << Line("error_shape", "", Len(L["wellness_predictions"].items)) >>
                        ELSE <<>>)
                    \o << Line("error_hint", "", 0) >>,
                    <<>>)

\* Line 180: the handler of the outer try.
HandleInputError(e) == << Line("error_inputs", e.msg, 0) >>

\* The order lines 127-129 run the three independent stages in.
SourceOrder == <<"stress", "depression", "burnout">>

\* The statements that follow them in the inner try.
WellnessStatements == <<"wellness_input", "scale", "wellness", "display">>

\* One statement of the inner try, run with locals L.
StageCall(stage, G, L) ==
    CASE stage = "stress" -> StressCall(G, L)
      [] stage = "depression" -> DepressionCall(G, L)
      [] stage = "burnout" -> BurnoutCall(G, L)
      [] stage = "wellness_input" -> BuildWellnessInput(L)
      [] stage = "scale" -> ScaleCall(G, L)
      [] stage = "wellness" -> WellnessCall(G, L)
      [] stage = "display" -> ShowResults(G, L)

\* The outcome r of the statements so far, followed by the outcome n of
\* the next statement.
Followed(r, n) ==
    [n EXCEPT !.lines = r.lines \o n.lines, !.calls = r.calls \o n.calls]

\* The statements stages[i..] run in sequence after outcome r, until one
\* raises.
RECURSIVE RunStages(_, _, _, _)
RunStages(stages, i, G, r) ==
    IF i > Len(stages) \/ ~r.ok THEN r
    ELSE RunStages(stages, i + 1, G, Followed(r, StageCall(stages[i], G, r.L)))

\* Lines 82-180 for one submission: the page a request renders when the
\* three stages run in the given order.
RequestPage(order, G, a) ==
    LET body == RunStages(order \o WellnessStatements, 1, G,
                          StepOk(BuildInputs(a), <<>>, <<>>))
    IN  IF body.ok THEN body.lines
        ELSE LET h == HandlePredictionError(body.L, body.exc)
             IN  body.lines \o h.lines
                 \o (IF h.ok THEN <<>> ELSE HandleInputError(h.exc))

\* ------------------------------------------------------------------ state

VARIABLES
    files,             \* the artifact files on disk, by file name
    stress_model, depression_model, burnout_model, wellness_model, scaler,
                       \* the module's globals of lines 30-34
    pc,                \* the statement the script run is at
    submitted,         \* what st.form_submit_button returned
    answers,           \* the raw-answer record the widgets returned
    locals,            \* the bound local names of get_user_input
    exc,               \* the exception being handled
    page,              \* the elements this script run wrote
    calls,             \* the artifact calls this script run made, in order
    raised,            \* the artifact whose call raised inside the inner try
    ref                \* an earlier submission and the page it rendered

vars ==
    <<files, stress_model, depression_model, burnout_model, wellness_model, scaler,
      pc, submitted, answers, locals, exc, page, calls, raised, ref>>

globals == <<stress_model, depression_model, burnout_model, wellness_model, scaler>>

\* The module's globals, by name.
G ==
    [stress_model |-> stress_model, depression_model |-> depression_model,
     burnout_model |-> burnout_model, wellness_model |-> wellness_model,
     scaler |-> scaler]

Missing == Artifact("missing", 0, 0, 0, {}, {}, "", FALSE)

NoExc == Exc("", "")
NoLocals == [n \in {} |-> PyNone]
NoRef == [set |-> FALSE, answers |-> Defaults, page |-> <<>>]

FileSet == {FileNames[i] : i \in 1..Len(FileNames)}

\* The disk of a deployment d of which the files in M are missing.
Disk(d, M) ==
    [f \in FileSet |->
        IF f \in M THEN Missing
        ELSE d[GlobalNames[CHOOSE i \in 1..Len(FileNames) : FileNames[i] = f]]]

Init ==
    /\ files \in {Disk(d, M) : d \in Deployments, M \in SUBSET FileSet}
    /\ stress_model = Unset
    /\ depression_model = Unset
    /\ burnout_model = Unset
    /\ wellness_model = Unset
    /\ scaler = Unset
    /\ pc = "load_stress"
    /\ submitted = FALSE
    /\ answers = Defaults
    /\ locals = NoLocals
    /\ exc = NoExc
    /\ page = <<>>
    /\ calls = <<>>
    /\ raised = "none"
    /\ ref = NoRef

\* ---------------------------------------------------------------- startup

request == <<submitted, answers, locals, page, calls, raised, ref>>

FileNotFoundError(f) ==
    Exc("FileNotFoundError", "[Errno 2] No such file or directory: '" \o f \o "'")

\* pickle.load(open(f, 'rb')) at pc = at: the artifact, or FileNotFoundError.
Load(at, f, next) ==
    /\ pc = at
    /\ IF files[f] = Missing
       THEN /\ exc' = FileNotFoundError(f)
            /\ pc' = "load_failed"
       ELSE /\ exc' = exc
            /\ pc' = next

\* Line 30.
LoadStress ==
    /\ Load("load_stress", "stress_model.pkl", "load_depression")
    /\ stress_model' = IF pc' = "load_failed" THEN stress_model ELSE files["stress_model.pkl"]
    /\ UNCHANGED <<files, depression_model, burnout_model, wellness_model, scaler, request>>

\* Line 31.
LoadDepression ==
    /\ Load("load_depression", "depression_model.pkl", "load_burnout")
    /\ depression_model' =
            IF pc' = "load_failed" THEN depression_model ELSE files["depression_model.pkl"]
    /\ UNCHANGED <<files, stress_model, burnout_model, wellness_model, scaler, request>>

\* Line 32.
LoadBurnout ==
    /\ Load("load_burnout", "burnout_model.pkl", "load_wellness")
    /\ burnout_model' = IF pc' = "load_failed" THEN burnout_model ELSE files["burnout_model.pkl"]
    /\ UNCHANGED <<files, stress_model, depression_model, wellness_model, scaler, request>>

\* Line 33.
LoadWellness ==
    /\ Load("load_wellness", "wellness_model.pkl", "load_scaler")
    /\ wellness_model' =
            IF pc' = "load_failed" THEN wellness_model ELSE files["wellness_model.pkl"]
    /\ UNCHANGED <<files, stress_model, depression_model, burnout_model, scaler, request>>

\* Line 34.
LoadScaler ==
    /\ Load("load_scaler", "scaler.pkl", "form")
    /\ scaler' = IF pc' = "load_failed" THEN scaler ELSE files["scaler.pkl"]
    /\ UNCHANGED <<files, stress_model, depression_model, burnout_model, wellness_model, request>>

LoadFailedNoStop ==
    /\ pc = "load_failed"
    /\ page' = Append(page, Line("error_loading", exc.msg, 0))
    /\ exc' = NoExc
    /\ pc' = "form"
    /\ UNCHANGED <<files, globals, submitted, answers, locals, calls, raised, ref>>

\* Lines 35-37: report the missing file and stop the script run.
LoadFailed ==
    /\ pc = "load_failed"
    /\ page' = Append(page, Line("error_loading", exc.msg, 0))
    /\ exc' = NoExc
    /\ pc' = "stopped"
    /\ UNCHANGED <<files, globals, submitted, answers, locals, calls, raised, ref>>

\* ------------------------------------------------------------ one request

\* Lines 43-80: the widgets return the collaborator's answers; the button
\* returns whether this run is a submission.
RenderForm ==
    /\ pc = "form"
    /\ \E a \in AnswerSet, s \in BOOLEAN :
          /\ answers' = a
          /\ submitted' = s
          /\ locals' = a @@ locals
          /\ pc' = IF s THEN "build" ELSE "done"
    /\ UNCHANGED <<files, globals, exc, page, calls, raised, ref>>

\* Lines 82-123.
BuildStage ==
    /\ pc = "build"
    /\ locals' = BuildInputs(locals)
    /\ pc' = "stress"
    /\ UNCHANGED <<files, globals, submitted, answers, exc, page, calls, raised, ref>>

\* A statement of the inner try at pc = at: its effects, and the jump to
\* the handler of line 171 when it raises.
InnerTry(at, r, next, artifact) ==
    /\ pc = at
    /\ locals' = r.L
    /\ page' = page \o r.lines
    /\ calls' = calls \o r.calls
    /\ IF r.ok
       THEN /\ pc' = next
            /\ exc' = exc
            /\ raised' = raised
       ELSE /\ pc' = "handler"
            /\ exc' = r.exc
            /\ raised' = artifact
    /\ UNCHANGED <<files, globals, submitted, answers, ref>>

\* Line 127.
StressStage == InnerTry("stress", StressCall(G, locals), "depression", "stress_model")

\* Line 128.
DepressionStage ==
    InnerTry("depression", DepressionCall(G, locals), "burnout", "depression_model")

\* Line 129.
BurnoutStage == InnerTry("burnout", BurnoutCall(G, locals), "wellness_input", "burnout_model")

\* Lines 132-139.
WellnessInputStage ==
    InnerTry("wellness_input", BuildWellnessInput(locals), "scale", "none")

\* Line 142.
ScaleStage == InnerTry("scale", ScaleCall(G, locals), "wellness", "scaler")

\* Line 143.
WellnessStage == InnerTry("wellness", WellnessCall(G, locals), "display", "wellness_model")

\* Lines 146-169.
DisplayStage == InnerTry("display", ShowResults(G, locals), "done", "none")

\* Lines 171-177.
InnerHandler ==
    /\ pc = "handler"
    /\ LET r == HandlePredictionError(locals, exc)
       IN  /\ page' = page \o r.lines
           /\ IF r.ok
              THEN /\ pc' = "done"
                   /\ exc' = NoExc
              ELSE /\ pc' = "outer"
                   /\ exc' = r.exc
    /\ UNCHANGED <<files, globals, submitted, answers, locals, calls, raised, ref>>

\* Lines 179-180.
OuterHandler ==
    /\ pc = "outer"
    /\ page' = page \o HandleInputError(exc)
    /\ exc' = NoExc
    /\ pc' = "done"
    /\ UNCHANGED <<files, globals, submitted, answers, locals, calls, raised, ref>>

\* A new script run starts with fresh names: no global, no local and no
\* page element of the run before it.  The run that ended may be the one
\* remembered in ref.
Restart(keptLocals) ==
    /\ pc \in {"done", "stopped"}
    /\ pc' = "load_stress"
    /\ stress_model' = Unset
    /\ depression_model' = Unset
    /\ burnout_model' = Unset
    /\ wellness_model' = Unset
    /\ scaler' = Unset
    /\ submitted' = FALSE
    /\ answers' = Defaults
    /\ locals' = keptLocals
    /\ exc' = NoExc
    /\ page' = <<>>
    /\ calls' = <<>>
    /\ raised' = "none"
    /\ \E remember \in BOOLEAN :
          ref' = IF remember /\ ~ref.set /\ pc = "done" /\ submitted
                 THEN [set |-> TRUE, answers |-> answers, page |-> page]
                 ELSE ref
    /\ UNCHANGED files

RerunKeepingNames == Restart(locals)

\* Lines 1-183 run again from the top, once per interaction.
Rerun == Restart(NoLocals)

Next ==
    \/ LoadStress
    \/ LoadDepression
    \/ LoadBurnout
    \/ LoadWellness
    \/ LoadScaler
    \/ LoadFailed
    \/ RenderForm
    \/ BuildStage
    \/ StressStage
    \/ DepressionStage
    \/ BurnoutStage
    \/ WellnessInputStage
    \/ ScaleStage
    \/ WellnessStage
    \/ DisplayStage
    \/ InnerHandler
    \/ OuterHandler
    \/ Rerun

Spec == Init /\ [][Next]_vars

\* ----------------------------------------------------------------- claims

\* The elements of the page of a given kind, in page order.
Shown(k) == SelectSeq(page, LAMBDA l : l.k = k)

ErrorKinds ==
    {"error_predictions", "error_debug", "error_type", "error_shape", "error_hint",
     "error_inputs"}

\* The five artifact calls, in pipeline order.
PipelineOrder ==
    <<"stress_model", "depression_model", "burnout_model", "scaler", "wellness_model">>
StageIndex(fn) == CHOOSE i \in 1..Len(PipelineOrder) : PipelineOrder[i] = fn

RequestPcs ==
    {"form", "build", "stress", "depression", "burnout", "wellness_input", "scale",
     "wellness", "display", "handler", "outer", "done"}

\* A submission has been processed to its end.
RequestDone == pc = "done" /\ submitted
\* ... and no artifact call raised.
Succeeded == RequestDone /\ raised = "none"

\* C1: when an artifact call raises, the raising call is the last call of
\* the request (no later stage is invoked), the page never holds a
\* prediction output, and the finished request shows an error report.
C1_NoPartialResults ==
    raised # "none" =>
        /\ calls # <<>>
        /\ calls[Len(calls)].fn = raised
        /\ \A i \in 1..Len(calls) : StageIndex(calls[i].fn) <= StageIndex(raised)
        /\ \A i \in 1..Len(page) : page[i].k \in ErrorKinds
        /\ pc = "done" => page # <<>>

\* C1 witness: the burnout call raised after stress and depression results
\* had been computed, and the request finished.
C1_Witness ==
    /\ RequestDone
    /\ raised = "burnout_model"
    /\ "stress_prediction" \in DOMAIN locals
    /\ "depression_prediction" \in DOMAIN locals

\* C2: an exception of an artifact call is caught once by the handler of
\* the inner try, which completes its report with the type of
\* wellness_predictions, and never reaches the handler of the outer try.
C2_CaughtOnceByInnerHandler ==
    (RequestDone /\ raised # "none") =>
        /\ Len(Shown("error_predictions")) = 1
        /\ Len(Shown("error_type")) = 1
        /\ Len(Shown("error_hint")) = 1
        /\ Shown("error_inputs") = <<>>

\* The float a model output becomes, when the output is a number.
IsNumber(v) == v.t \in {"float", "int"}
Quarters(v) == IF v.t = "int" THEN 4 * v.n ELSE v.n

\* The value of the column of a frame with the given name.
Column(df, name) == (CHOOSE i \in 1..Len(df) : df[i].name = name)

\* C3: the scaler and the wellness model are called only after the
\* depression and the burnout calls returned; the wellness frame holds
\* their raw outputs; the wellness model is given the scaler's output.
C3_WellnessAfterRawOutputs ==
    \A i \in 1..Len(calls) :
        calls[i].fn \in {"scaler", "wellness_model"} =>
            \E d, b \in 1..(i - 1) :
                LET dep == PredictRow0(depression_model, calls[d].arg)
                    burn == PredictRow0(burnout_model, calls[b].arg)
                    wi == locals["wellness_input"]
                IN  /\ calls[d].fn = "depression_model" /\ dep.ok
                    /\ calls[b].fn = "burnout_model" /\ burn.ok
                    /\ IsNumber(dep.val) =>
                          wi[Column(wi, "depression_risk_Yes")].val = Quarters(dep.val)
                    /\ IsNumber(burn.val) =>
                          wi[Column(wi, "burnout_Yes")].val = Quarters(burn.val)
                    /\ calls[i].fn = "scaler" => calls[i].arg = Values(wi)
                    /\ calls[i].fn = "wellness_model" =>
                          /\ calls[i - 1].fn = "scaler"
                          /\ calls[i].arg = Transform(scaler, calls[i - 1].arg).val.items
                          /\ calls[i].arg # Values(wi)

\* C3 witness: the wellness model was called in a request whose depression
\* and burnout outputs are numbers that thresholding would change.
C3_Witness ==
    /\ Len(calls) = 5
    /\ calls[5].fn = "wellness_model"
    /\ locals["depression_prediction"].n \notin {0, 4}
    /\ locals["burnout_prediction"].n \notin {0, 4}

\* |q/4 - t/10| <= 0.05: t tenths is q quarters shown to one decimal.
ToOneDecimal(q, t) == (5 * q - 2 * t) \in -1..1

\* q quarters brought into [1.0, 5.0].
Into1to5(q) == IF q < 4 THEN 4 ELSE IF q > 20 THEN 20 ELSE q

\* C4: a successful request shows, for a sequence of n scores, min(4, n)
\* pairs, the i-th pairing the i-th activity with the i-th score clamped to
\* [1.0, 5.0]; for a scalar, four pairs with that scalar clamped; no shown
\* score is below 1.0 or above 5.0.
C4_WellnessPairs ==
    Succeeded =>
        LET wp == locals["wellness_predictions"]
            acts == Shown("activity")
            n == Len(wp.items)
        IN  /\ \A i \in 1..Len(acts) :
                  /\ acts[i].a = wellness_activities[i]
                  /\ acts[i].n >= 10 /\ acts[i].n <= 50
            /\ IF wp.t \in {"list", "ndarray"}
               THEN /\ Len(acts) = (IF n < 4 THEN n ELSE 4)
                    /\ \A i \in 1..Len(acts) :
                          IsNumber(wp.items[i]) =>
                              ToOneDecimal(Into1to5(Quarters(wp.items[i])), acts[i].n)
               ELSE /\ Len(acts) = 4
                    /\ \A i \in 1..4 : ToOneDecimal(Into1to5(Quarters(wp)), acts[i].n)

\* C4 witness: a sequence of more than four scores, with a score under 1.0
\* shown as 1.0 and a score over 5.0 shown as 5.0.
C4_Witness ==
    /\ Succeeded
    /\ locals["wellness_predictions"].t = "list"
    /\ Len(locals["wellness_predictions"].items) > 4
    /\ Quarters(locals["wellness_predictions"].items[1]) < 4
    /\ Quarters(locals["wellness_predictions"].items[4]) > 20
    /\ Shown("activity")[1].n = 10
    /\ Shown("activity")[4].n = 50

\* C5: the stress score a successful request shows lies in [0, 5].
C5_StressShownWithin0to5 ==
    Succeeded => \A i \in 1..Len(Shown("stress")) :
                    Shown("stress")[i].n >= 0 /\ Shown("stress")[i].n <= 50

SomeFileMissing == \E f \in FileSet : files[f] = Missing

\* C6: with an artifact file missing, the script run reports the missing
\* file and stops: it never reaches the form, processes no submission and
\* calls no artifact, whatever was loaded before the missing file.
C6_MissingArtifactHalts ==
    SomeFileMissing =>
        /\ pc \notin RequestPcs
        /\ ~submitted
        /\ calls = <<>>
        /\ pc = "stopped" =>
              /\ Len(page) = 1
              /\ page[1].k = "error_loading"

\* C6 witness: the run stopped on a missing scaler file after the four
\* models had been loaded.
C6_Witness ==
    /\ pc = "stopped"
    /\ files["scaler.pkl"] = Missing
    /\ stress_model # Unset
    /\ wellness_model # Unset
    /\ scaler = Unset

\* The six orders of the three independent stages.
Orders ==
    {o \in [1..3 -> {"stress", "depression", "burnout"}] :
        \A i, j \in 1..3 : i # j => o[i] # o[j]}

\* Whether a stage's call raises for the current submission, and the stages
\* that do.
StageRaises(stage) == ~StageCall(stage, G, BuildInputs(answers)).ok
RaisingStages == {st \in {"stress", "depression", "burnout"} : StageRaises(st)}

\* The first stage of an order whose call raises.
FirstRaising(o) == o[CHOOSE i \in 1..3 : StageRaises(o[i]) /\ \A j \in 1..(i - 1) : ~StageRaises(o[j])]

\* C7 as stated: every order of the three stages renders the page that the
\* request rendered.
C7_AnyOrderSamePage ==
    RequestDone => \A o \in Orders : RequestPage(o, G, answers) = page

\* C7 amended: every order renders the same page when at most one of the
\* three stages raises; when several raise, every order renders an error
\* report of the same shape and no prediction output, whose first line
\* carries the message of the raising stage that the order runs first.
C7_AnyOrderSamePageUpToFirstError ==
    RequestDone =>
        \A o \in Orders :
            LET p == RequestPage(o, G, answers)
            IN  IF Cardinality(RaisingStages) <= 1
                THEN p = page
                ELSE /\ Len(p) = Len(page)
                     /\ \A i \in 1..Len(p) :
                           /\ p[i].k = page[i].k
                           /\ p[i].k \in ErrorKinds
                           /\ p[i].n = page[i].n
                           /\ IF i = 1
                              THEN /\ p[i].k = "error_predictions"
                                   /\ p[i].a = StageCall(FirstRaising(o), G,
                                                         BuildInputs(answers)).exc.msg
                              ELSE p[i].a = page[i].a

\* C7 witness: a finished request in which both the stress and the
\* depression call raise.
C7_Witness ==
    /\ RequestDone
    /\ StageRaises("stress")
    /\ StageRaises("depression")

\* C8: a submission whose answers equal those of an earlier submission
\* renders the page the earlier one rendered, whatever ran in between; and
\* while a request is processed the globals hold what was loaded from the
\* files.
C8_Idempotent ==
    /\ (RequestDone /\ ref.set /\ ref.answers = answers) => page = ref.page
    /\ pc \in RequestPcs =>
          /\ stress_model = files["stress_model.pkl"]
          /\ depression_model = files["depression_model.pkl"]
          /\ burnout_model = files["burnout_model.pkl"]
          /\ wellness_model = files["wellness_model.pkl"]
          /\ scaler = files["scaler.pkl"]

\* C8 witness: a failed submission repeats an earlier submission's answers.
C8_Witness ==
    /\ RequestDone
    /\ ref.set
    /\ ref.answers = answers
    /\ raised = "depression_model"

\* C9: on a successful request the depression flag is "Yes" exactly when
\* the depression model's numeric output is at least 0.5, and likewise the
\* burnout flag.
C9_FlagsThresholdAtHalf ==
    Succeeded =>
        LET dep == PredictRow0(depression_model, Values(locals["depression_input"])).val
            burn == PredictRow0(burnout_model, Values(locals["burnout_input"])).val
        IN  /\ Len(Shown("depression")) = 1
            /\ Len(Shown("burnout")) = 1
            /\ Shown("depression")[1].a \in {"Yes", "No"}
            /\ Shown("burnout")[1].a \in {"Yes", "No"}
            /\ IsNumber(dep) => (Shown("depression")[1].a = "Yes" <=> 2 * Quarters(dep) >= 4)
            /\ IsNumber(burn) => (Shown("burnout")[1].a = "Yes" <=> 2 * Quarters(burn) >= 4)

\* C9 witness: a depression output of exactly 0.5 is shown as "Yes".
C9_Witness ==
    /\ Succeeded
    /\ PredictRow0(depression_model, Values(locals["depression_input"])).val = PyFloat(2)
    /\ Shown("depression")[1].a = "Yes"

\* What the claim expects of one column: "num" the answer's number or 0.0,
\* "yes" 1.0 for a text equal to "yes" in any letter case, "is" 1.0 for the
\* gender named.
Want(column, field, rule, arg) ==
    [column |-> column, field |-> field, rule |-> rule, arg |-> arg]

YesTexts == {"yes", "Yes", "yEs", "yeS", "YEs", "YeS", "yES", "YES"}

Expected(w) ==
    LET v == answers[w.field]
    IN  CASE w.rule = "num" ->
                (CASE v.t = "int" -> 4 * v.n
                   [] v.t = "float" -> v.n
                   [] v.t = "str" /\ v.s = "7" -> 28
                   [] OTHER -> 0)
          [] w.rule = "yes" -> (IF v.t = "str" /\ v.s \in YesTexts THEN 4 ELSE 0)
          [] w.rule = "is" -> (IF v = PyStr(w.arg) THEN 4 ELSE 0)

StressColumns ==
    << Want("age", "age", "num", ""), Want("sleep_hours", "sleep_hours", "num", ""),
       Want("work_hours", "work_hours", "num", ""),
       Want("exercise_freq", "exercise_freq", "num", ""),
       Want("screen_time", "screen_time", "num", ""),
       Want("social_activity", "social_activity", "num", ""),
       Want("diet_quality", "diet_quality", "num", ""),
       Want("gender_Male", "gender", "is", "Male"),
       Want("gender_Other", "gender", "is", "Other") >>

DepressionColumns ==
    << Want("age", "age", "num", ""), Want("sleep_quality", "sleep_quality", "num", ""),
       Want("stress_level", "stress_level_dep", "num", ""),
       Want("social_support", "social_support", "num", ""),
       Want("physical_activity", "physical_activity", "num", ""),
       Want("gender_Male", "gender", "is", "Male"),
       Want("gender_Other", "gender", "is", "Other"),
       Want("family_history_Yes", "family_history", "yes", ""),
       Want("substance_use_Yes", "substance_use", "yes", "") >>

BurnoutColumns ==
    << Want("age", "age", "num", ""), Want("work_hours", "work_hours", "num", ""),
       Want("overtime", "overtime", "num", ""),
       Want("work_satisfaction", "work_satisfaction", "num", ""),
       Want("stress_level", "stress_level_burn", "num", ""),
       Want("sleep_hours", "sleep_hours", "num", ""),
       Want("mood_swings", "mood_swings", "num", ""),
       Want("gender_Male", "gender", "is", "Male"),
       Want("gender_Other", "gender", "is", "Other") >>

FrameIs(df, wants) ==
    /\ Len(df) = Len(wants)
    /\ \A i \in 1..Len(wants) :
          /\ df[i].name = wants[i].column
          /\ df[i].val = Expected(wants[i])

====
